---- MODULE Spec2Model ----
(***************************************************************************)
(* Model of the authentication server of One-Factor-Authentication         *)
(* (src/server.py): the SQLite table user_commitments and the HTTP         *)
(* request handler with its two POST operations, /enroll and               *)
(* /verifyCommitment, and GET /.                                           *)
(*                                                                         *)
(* One server process is one HTTPServer (run, server.py:157-163): it       *)
(* handles one request at a time.  Several server processes can share the  *)
(* database file commitments.db; each SQL statement (with its commit) is   *)
(* one atomic step on the file, and the steps of requests handled by       *)
(* different processes interleave.                                         *)
(***************************************************************************)
EXTENDS Integers, Sequences, FiniteSets, TLC

(* ---- bounds of the model ---- *)
\* server processes that share commitments.db
MaxProcs == 2
\* requests accepted in one behaviour, over all processes
MaxRequests == 3

Procs == 1..MaxProcs

(* ---- JSON values as json.loads and dict.get deliver them ---- *)
\* A value is <<type, text>>: Python's None (an absent key or a JSON null),
\* a str, or an int written in decimal.
None == <<"NoneType", "">>

Str(s) == <<"str", s>>

Num(s) == <<"int", s>>

\* user_name fields the requests carry
UserNames == {None, Str(""), Str("alice"), Str("bob")}

\* crypto_commitment fields the requests carry: two strings that differ
\* only in case, and a JSON number
Commitments == {None, Str(""), Str("AAA111"), Str("aaa111"), Num("7")}

\* a validation that tests `is None` only
Truthy_NotNone(v) == v[1] # "NoneType"

\* Python truth value of a field: `not v` is true of None, "" and 0
Truthy(v) ==
  CASE v[1] = "NoneType" -> FALSE
    [] v[1] = "str" -> v[2] # ""
    [] v[1] = "int" -> v[2] # "0"

\* sqlite3 binds a str as TEXT and an int as INTEGER; a TEXT column (and a
\* comparison with one) converts the INTEGER to its decimal text
ToText(v) == v[2]

(* ---- the table user_commitments ---- *)
VARIABLES
  store,    \* the rows of user_commitments, in rowid order
  pc,       \* pc[p]: where process p is in the request it handles
  req,      \* req[p]: the request process p handles
  sent      \* the log, oldest first: the responses sent, the requests that
            \* ended without one (status 0), the restarts of a server

vars == <<store, pc, req, sent>>

NoReq == [path |-> "", user_name |-> None, crypto_commitment |-> None,
          start |-> 0, sql |-> <<>>]

\* rows whose user_name equals the bound parameter
Matching(rows, user_name) ==
  SelectSeq(rows, LAMBDA r : r.user_name = ToText(user_name))

\* DROP TABLE, then CREATE TABLE: every start empties the table
init_db_Fresh(rows) == <<>>

\* CREATE TABLE IF NOT EXISTS: an existing table keeps its rows
init_db(rows) == rows

\* INSERT OR REPLACE on user_name: the row of a known username is rewritten
save_crypto_commitment_Upsert(rows, user_name, crypto_commitment) ==
  IF \E i \in 1..Len(rows) : rows[i].user_name = ToText(user_name)
  THEN [i \in 1..Len(rows) |->
          IF rows[i].user_name = ToText(user_name)
          THEN [rows[i] EXCEPT !.crypto_commitment = ToText(crypto_commitment)]
          ELSE rows[i]]
  ELSE Append(rows, [id |-> Len(rows) + 1,
                     user_name |-> ToText(user_name),
                     crypto_commitment |-> ToText(crypto_commitment)])

\* INSERT: a new row with the next rowid
save_crypto_commitment(rows, user_name, crypto_commitment) ==
  Append(rows, [id |-> Len(rows) + 1,
                user_name |-> ToText(user_name),
                crypto_commitment |-> ToText(crypto_commitment)])

\* fetchone() returned as it is, a row, and not its first column
verify_crypto_commitment_Row(rows, user_name) ==
  LET m == Matching(rows, user_name)
  IN  IF m # <<>> THEN <<"tuple", m[1].crypto_commitment>> ELSE None

\* SELECT crypto_commitment ... fetchone(): the first matching row, or None
verify_crypto_commitment(rows, user_name) ==
  LET m == Matching(rows, user_name)
  IN  IF m # <<>> THEN Str(m[1].crypto_commitment) ELSE None

\* the existence check on the wrong column
user_exists_ByCommitment(rows, user_name) ==
  \E i \in 1..Len(rows) : rows[i].crypto_commitment = ToText(user_name)

\* SELECT 1 ... fetchone() is not None
user_exists(rows, user_name) == Matching(rows, user_name) # <<>>

(* ---- the request handler ---- *)
\* requests accepted so far: answered, or being handled
Accepted == Len(sent) + Cardinality({p \in Procs : pc[p] # "idle"})

\* the body written after send_response: the JSON object's key and text (the
\* plain text of GET /), nothing when no response is sent
Body(path, status) ==
  CASE status = 201 -> <<"message", "Crypto commitment and username saved successfully!">>
    [] status = 409 -> <<"error", "User already exists">>
    [] status = 403 -> <<"error", "Unauthorized">>
    [] status = 400 /\ path = "/enroll" ->
         <<"error", "Missing username or crypto commitment">>
    [] status = 400 /\ path # "/enroll" -> <<"error", "Missing username">>
    [] status = 200 /\ path = "/verifyCommitment" -> <<"message", "Login Successful">>
    [] status = 200 /\ path # "/verifyCommitment" -> <<"text", "Server is running">>
    [] OTHER -> <<>>

\* a response as the log keeps it: the request, the statements it ran, the
\* status and body sent, and the number of rows the table had at that moment
Response(r, status) ==
  [path |-> r.path, user_name |-> r.user_name,
   crypto_commitment |-> r.crypto_commitment,
   start |-> r.start, sql |-> r.sql, status |-> status,
   body |-> Body(r.path, status), rows |-> Len(store)]

Request(path, user_name, crypto_commitment) ==
  [path |-> path, user_name |-> user_name,
   crypto_commitment |-> crypto_commitment,
   start |-> Len(sent), sql |-> <<>>]

Init ==
  /\ store = init_db(<<>>)
  /\ pc = [p \in Procs |-> "idle"]
  /\ req = [p \in Procs |-> NoReq]
  /\ sent = <<>>

\* do_POST, path /enroll, up to the validation of the two fields
EnrollReceive(p, user_name, crypto_commitment) ==
  /\ pc[p] = "idle"
  /\ Accepted < MaxRequests
  /\ LET r == Request("/enroll", user_name, crypto_commitment)
     IN  IF ~Truthy(user_name) \/ ~Truthy(crypto_commitment)
         THEN /\ sent' = Append(sent, Response(r, 400))
              /\ UNCHANGED <<pc, req>>
         ELSE /\ pc' = [pc EXCEPT ![p] = "user_exists"]
              /\ req' = [req EXCEPT ![p] = r]
              /\ UNCHANGED sent
  /\ UNCHANGED store

\* /enroll that inserts before it looks at the result of the existence check
EnrollCheck_SaveFirst(p) ==
  /\ pc[p] = "user_exists"
  /\ LET r == [req[p] EXCEPT !.sql = Append(@, "SELECT")]
     IN  IF user_exists(store, r.user_name)
         THEN /\ sent' = Append(sent, Response(r, 409))
              /\ pc' = [pc EXCEPT ![p] = "idle"]
              /\ req' = [req EXCEPT ![p] = NoReq]
              /\ store' = save_crypto_commitment(store, r.user_name,
                                                 r.crypto_commitment)
         ELSE /\ pc' = [pc EXCEPT ![p] = "save"]
              /\ req' = [req EXCEPT ![p] = r]
              /\ UNCHANGED <<sent, store>>

\* do_POST, path /enroll: the existence check
EnrollCheck(p) ==
  /\ pc[p] = "user_exists"
  /\ LET r == [req[p] EXCEPT !.sql = Append(@, "SELECT")]
     IN  IF user_exists(store, r.user_name)
         THEN /\ sent' = Append(sent, Response(r, 409))
              /\ pc' = [pc EXCEPT ![p] = "idle"]
              /\ req' = [req EXCEPT ![p] = NoReq]
         ELSE /\ pc' = [pc EXCEPT ![p] = "save"]
              /\ req' = [req EXCEPT ![p] = r]
              /\ UNCHANGED sent
  /\ UNCHANGED store

\* an insert that waits until no other handler is between its check and its
\* insert
EnrollSave_Exclusive(p) ==
  /\ pc[p] = "save"
  /\ \A q \in Procs \ {p} : pc[q] # "save"
  /\ store' = save_crypto_commitment(store, req[p].user_name,
                                     req[p].crypto_commitment)
  /\ pc' = [pc EXCEPT ![p] = "created"]
  /\ req' = [req EXCEPT ![p].sql = Append(@, "INSERT")]
  /\ UNCHANGED sent

\* do_POST, path /enroll: the insert and its commit
EnrollSave(p) ==
  /\ pc[p] = "save"
  /\ store' = save_crypto_commitment(store, req[p].user_name,
                                     req[p].crypto_commitment)
  /\ pc' = [pc EXCEPT ![p] = "created"]
  /\ req' = [req EXCEPT ![p].sql = Append(@, "INSERT")]
  /\ UNCHANGED sent

\* do_POST, path /enroll: the 201 response
EnrollRespond(p) ==
  /\ pc[p] = "created"
  /\ sent' = Append(sent, Response(req[p], 201))
  /\ pc' = [pc EXCEPT ![p] = "idle"]
  /\ req' = [req EXCEPT ![p] = NoReq]
  /\ UNCHANGED store

\* /verifyCommitment without the validation of user_name
VerifyReceive_Unchecked(p, user_name, crypto_commitment) ==
  /\ pc[p] = "idle"
  /\ Accepted < MaxRequests
  /\ pc' = [pc EXCEPT ![p] = "verify"]
  /\ req' = [req EXCEPT ![p] =
               Request("/verifyCommitment", user_name, crypto_commitment)]
  /\ UNCHANGED <<store, sent>>

\* do_POST, path /verifyCommitment, up to the validation of user_name
VerifyReceive(p, user_name, crypto_commitment) ==
  /\ pc[p] = "idle"
  /\ Accepted < MaxRequests
  /\ LET r == Request("/verifyCommitment", user_name, crypto_commitment)
     IN  IF ~Truthy(user_name)
         THEN /\ sent' = Append(sent, Response(r, 400))
              /\ UNCHANGED <<pc, req>>
         ELSE /\ pc' = [pc EXCEPT ![p] = "verify"]
              /\ req' = [req EXCEPT ![p] = r]
              /\ UNCHANGED sent
  /\ UNCHANGED store

\* the strings of the model in lower case
Lower(v) == IF v = Str("AAA111") THEN Str("aaa111") ELSE v

\* /verifyCommitment with a comparison that ignores case
VerifyCompare_NoCase(p) ==
  /\ pc[p] = "verify"
  /\ LET r == [req[p] EXCEPT !.sql = Append(@, "SELECT")]
         stored_crypto_commitment == verify_crypto_commitment(store, r.user_name)
     IN  sent' = Append(sent,
           Response(r, IF Lower(stored_crypto_commitment) = Lower(r.crypto_commitment)
                       THEN 200 ELSE 403))
  /\ pc' = [pc EXCEPT ![p] = "idle"]
  /\ req' = [req EXCEPT ![p] = NoReq]
  /\ UNCHANGED store

\* /verifyCommitment that uses the commitment up: a successful login deletes
\* the rows of the username
VerifyCompare_Once(p) ==
  /\ pc[p] = "verify"
  /\ LET r == [req[p] EXCEPT !.sql = Append(@, "SELECT")]
         stored_crypto_commitment == verify_crypto_commitment(store, r.user_name)
         ok == stored_crypto_commitment = r.crypto_commitment
     IN  /\ sent' = Append(sent, Response(r, IF ok THEN 200 ELSE 403))
         /\ store' = IF ok
                     THEN SelectSeq(store,
                            LAMBDA w : w.user_name # ToText(r.user_name))
                     ELSE store
  /\ pc' = [pc EXCEPT ![p] = "idle"]
  /\ req' = [req EXCEPT ![p] = NoReq]

\* do_POST, path /verifyCommitment: the lookup, the comparison, the response
VerifyCompare(p) ==
  /\ pc[p] = "verify"
  /\ LET r == [req[p] EXCEPT !.sql = Append(@, "SELECT")]
         stored_crypto_commitment == verify_crypto_commitment(store, r.user_name)
     IN  sent' = Append(sent,
           Response(r, IF stored_crypto_commitment = r.crypto_commitment
                       THEN 200 ELSE 403))
  /\ pc' = [pc EXCEPT ![p] = "idle"]
  /\ req' = [req EXCEPT ![p] = NoReq]
  /\ UNCHANGED store

\* do_GET, path /
do_GET(p) ==
  /\ pc[p] = "idle"
  /\ Accepted < MaxRequests
  /\ sent' = Append(sent, Response(Request("/", None, None), 200))
  /\ UNCHANGED <<store, pc, req>>

Handle(p) ==
  \/ \E u \in UserNames, c \in Commitments : EnrollReceive(p, u, c)
  \/ EnrollCheck(p)
  \/ EnrollSave(p)
  \/ EnrollRespond(p)
  \/ \E u \in UserNames, c \in Commitments : VerifyReceive(p, u, c)
  \/ VerifyCompare(p)
  \/ do_GET(p)

\* several server processes on one database file
Next == \E p \in Procs : Handle(p)

Spec == Init /\ [][Next]_vars

\* one server process that hands each request to a thread of its own
NextOne_Threaded == \E p \in Procs : Handle(p)

\* one server process: its requests are handled one after the other
NextOne == Handle(1)

SpecOne == Init /\ [][NextOne]_vars

\* the handlers under fair scheduling: a handler that can take its next step
\* eventually takes it
Fairness ==
  \A p \in Procs :
    /\ WF_vars(EnrollCheck(p))
    /\ WF_vars(EnrollSave(p))
    /\ WF_vars(EnrollRespond(p))
    /\ WF_vars(VerifyCompare(p))

SpecLive == Init /\ [][Next]_vars /\ Fairness

(* ---- requests that end in an exception ---- *)
\* user_name and crypto_commitment of a request whose body raised before
\* they were assigned
Unbound == <<"unbound", "">>

\* do_POST with a body that is no JSON object, no JSON at all, or without a
\* Content-Length: int(), json.loads or data.get raises, nothing catches it,
\* and the connection is closed without a response
Malformed(p, path) ==
  /\ pc[p] = "idle"
  /\ Accepted < MaxRequests
  /\ sent' = Append(sent, Response(Request(path, Unbound, Unbound), 0))
  /\ UNCHANGED <<store, pc, req>>

\* a statement of the request raises sqlite3.Error (the file is locked or
\* unreadable, the disk is full): the statement writes nothing, nothing
\* catches the exception, and the connection is closed without a response
StoreFault(p) ==
  /\ pc[p] \in {"user_exists", "save", "verify"}
  /\ sent' = Append(sent,
        Response([req[p] EXCEPT !.sql = Append(@, "sqlite3.Error")], 0))
  /\ pc' = [pc EXCEPT ![p] = "idle"]
  /\ req' = [req EXCEPT ![p] = NoReq]
  /\ UNCHANGED store

NextFault ==
  \/ Next
  \/ \E p \in Procs : StoreFault(p)
  \/ \E p \in Procs, path \in {"/enroll", "/verifyCommitment"} :
       Malformed(p, path)

SpecFault == Init /\ [][NextFault]_vars

(* ---- stopping and starting a server ---- *)
\* server process p is stopped, wherever it is (a request it was handling is
\* dropped), and run() is called again: init_db on the existing file
Restart(p) ==
  /\ pc[p] # "idle" \/ Accepted < MaxRequests
  /\ store' = init_db(store)
  /\ sent' = Append(sent, Response(Request("run", None, None), 0))
  /\ pc' = [pc EXCEPT ![p] = "idle"]
  /\ req' = [req EXCEPT ![p] = NoReq]

NextRestart == NextOne \/ Restart(1)

SpecRestart == Init /\ [][NextRestart]_vars

(* ---- what the claims speak of ---- *)
\* the usernames and commitments that are non-empty strings
Names == {u \in UserNames : u[1] = "str" /\ u[2] # ""}

Secrets == {c \in Commitments : c[1] = "str" /\ c[2] # ""}

\* a field that is missing (absent or null) or empty
Missing(v) == v = None \/ v = Str("")

\* the rows the store holds for username u
RecordsOf(u) == {i \in 1..Len(store) : store[i].user_name = u[2]}

\* the answered requests of one kind
Enrolls == {i \in 1..Len(sent) : sent[i].path = "/enroll"}

Verifies == {i \in 1..Len(sent) : sent[i].path = "/verifyCommitment"}

\* the answered Enroll requests that carried both fields, for username u
EnrollsOf(u) ==
  {i \in Enrolls : sent[i].user_name = u /\ ~Missing(sent[i].crypto_commitment)}

\* request j was accepted after response i was sent
Follows(j, i) == i < j /\ sent[j].start >= i

\* a process is handling an Enroll for username u
Enrolling(u) ==
  \E p \in Procs : req[p].path = "/enroll" /\ req[p].user_name = u

\* this step sends a response
Responds == Len(sent') = Len(sent) + 1

Answer == sent'[Len(sent')]

(* C1: in every reachable state the store holds at most one record per
   username. *)
C1_OneRecordPerUsername ==
  \A i, j \in 1..Len(store) :
    store[i].user_name = store[j].user_name => i = j

(* C2: once the Enroll calls for one username, with distinct non-empty
   commitments, are all answered, exactly one of them was answered Created
   and the others Conflict, and the store holds exactly one record for the
   username, with the commitment of the call answered Created. *)
C2_ExactlyOneCreated ==
  \A u \in Names :
    LET E == EnrollsOf(u)
        Created == {i \in E : sent[i].status = 201}
    IN  ( /\ E # {}
          /\ ~Enrolling(u)
          /\ \A i, j \in E :
               i # j => sent[i].crypto_commitment # sent[j].crypto_commitment )
        => /\ Cardinality(Created) = 1
           /\ \A i \in E \ Created : sent[i].status = 409
           /\ Cardinality(RecordsOf(u)) = 1
           /\ \A i \in Created, k \in RecordsOf(u) :
                store[k].crypto_commitment = sent[i].crypto_commitment[2]

(* C3: a VerifyCommitment for a username that has no record is answered
   Unauthorized (403), never Authenticated (200), whatever its commitment
   field is, an absent one included. *)
C3_UnregisteredUnauthorized ==
  [][ ( /\ Responds
        /\ Answer.path = "/verifyCommitment"
        /\ Answer.user_name \in Names
        /\ RecordsOf(Answer.user_name) = {} )
      => Answer.status = 403 ]_vars

(* C4: after Enroll(u, c1) is answered Created, a following Enroll(u, c2)
   with another non-empty commitment c2 is answered Conflict, a following
   VerifyCommitment(u, c2) is answered Unauthorized and a following
   VerifyCommitment(u, c1) is answered Authenticated. *)
C4_EnrollOnceThenVerify ==
  \A i \in Enrolls :
    ( /\ sent[i].status = 201
      /\ sent[i].user_name \in Names
      /\ sent[i].crypto_commitment \in Secrets )
    => \A j \in 1..Len(sent) :
         ( /\ Follows(j, i)
           /\ sent[j].user_name = sent[i].user_name
           /\ sent[j].crypto_commitment \in Secrets )
         => IF j \in Enrolls
            THEN sent[j].crypto_commitment # sent[i].crypto_commitment
                   => sent[j].status = 409
            ELSE sent[j].status =
                   IF sent[j].crypto_commitment = sent[i].crypto_commitment
                   THEN 200 ELSE 403

\* Created for (u, c1), then Conflict for (u, c2), then a verify of u
C4_Witness ==
  \E i, j, k \in 1..Len(sent) :
    /\ i \in Enrolls /\ sent[i].status = 201
    /\ sent[i].crypto_commitment \in Secrets
    /\ j \in Enrolls /\ Follows(j, i) /\ sent[j].status = 409
    /\ sent[j].user_name = sent[i].user_name
    /\ sent[j].crypto_commitment \in Secrets \ {sent[i].crypto_commitment}
    /\ k \in Verifies /\ Follows(k, j) /\ sent[k].status = 403
    /\ sent[k].user_name = sent[i].user_name
    /\ sent[k].crypto_commitment = sent[j].crypto_commitment

(* C5: whenever an Enroll(u, c) has been answered Created, every
   VerifyCommitment(u, c) accepted later is answered Authenticated, whatever
   other requests ran before, concurrently with, or after that Enroll. *)
C5_RoundTrip ==
  \A i \in Enrolls, j \in Verifies :
    ( /\ sent[i].status = 201
      /\ sent[i].user_name \in Names
      /\ sent[i].crypto_commitment \in Secrets
      /\ Follows(j, i)
      /\ sent[j].user_name = sent[i].user_name
      /\ sent[j].crypto_commitment = sent[i].crypto_commitment )
    => sent[j].status = 200

\* the commitment the store holds for username u in rows: that of u's record
\* (of the oldest one, where the enrollment race of C2 has left several)
Oldest(rows, u) ==
  LET R == {i \in 1..Len(rows) : rows[i].user_name = u[2]}
  IN  rows[CHOOSE i \in R : \A k \in R : i <= k].crypto_commitment

(* C6: a VerifyCommitment(u, x) for a username u with a stored commitment s
   is answered Authenticated if x is the string s, exactly, and Unauthorized
   for every other x: one that differs in case only, an absent or an empty
   one. *)
C6_AuthenticatedIffEqual ==
  [][ ( /\ Responds
        /\ Answer.path = "/verifyCommitment"
        /\ Answer.user_name \in Names
        /\ RecordsOf(Answer.user_name) # {} )
      => Answer.status =
           IF Answer.crypto_commitment = Str(Oldest(store, Answer.user_name))
           THEN 200 ELSE 403 ]_vars

\* a verify of a registered user answered 403 for a commitment that differs
\* from the stored one in case only, and one answered 200
C6_Witness ==
  \E i, j \in Verifies :
    /\ sent[i].user_name = sent[j].user_name
    /\ sent[i].status = 200 /\ sent[i].crypto_commitment = Str("AAA111")
    /\ sent[j].status = 403 /\ sent[j].crypto_commitment = Str("aaa111")

(* C7: a record, once in the store, stays there unchanged: no step removes,
   overwrites or updates a row, and the commitment the store holds for a
   registered username is the same in every later state. *)
C7_RecordsImmutable ==
  [][ /\ Len(store') >= Len(store)
      /\ \A i \in 1..Len(store) : store'[i] = store[i]
      /\ \A u \in Names :
           RecordsOf(u) # {} => Oldest(store', u) = Oldest(store, u) ]_vars

\* a registered username enrolled again with another commitment: the store
\* still holds the one row, with the first commitment
C7_Witness ==
  \E i, j \in Enrolls :
    /\ sent[i].status = 201
    /\ Follows(j, i)
    /\ sent[j].user_name = sent[i].user_name
    /\ sent[j].crypto_commitment \in Secrets \ {sent[i].crypto_commitment}
    /\ Len(store) = 1
    /\ store[1].user_name = sent[i].user_name[2]
    /\ store[1].crypto_commitment = sent[i].crypto_commitment[2]

(* C8: once an Enroll for username u has been answered Created, every Enroll
   for u accepted later with a non-empty commitment, the stored one or
   another, is answered Conflict, never Created. *)
C8_RegisteredIsTerminal ==
  \A i, j \in Enrolls :
    ( /\ sent[i].status = 201
      /\ Follows(j, i)
      /\ sent[j].user_name = sent[i].user_name
      /\ ~Missing(sent[j].crypto_commitment) )
    => sent[j].status = 409

\* Created for u, then Conflict for the same commitment and for another
C8_Witness ==
  \E i, j, k \in Enrolls :
    /\ sent[i].status = 201
    /\ Follows(j, i) /\ Follows(k, i)
    /\ sent[j].user_name = sent[i].user_name
    /\ sent[k].user_name = sent[i].user_name
    /\ sent[j].crypto_commitment = sent[i].crypto_commitment
    /\ sent[k].crypto_commitment \notin {sent[i].crypto_commitment, None, Str("")}
    /\ sent[j].status = 409 /\ sent[k].status = 409

(* C9: an Enroll whose username or commitment is missing or empty is
   answered BadRequest (400) without a statement run on the store and with
   the store left unchanged, also when the username is registered. *)
C9_EnrollBadRequest ==
  [][ ( /\ Responds
        /\ Answer.path = "/enroll"
        /\ Missing(Answer.user_name) \/ Missing(Answer.crypto_commitment) )
      => /\ Answer.status = 400
         /\ Answer.sql = <<>>
         /\ store' = store ]_vars

\* a registered username enrolled again without a commitment: 400, not 409
C9_Witness ==
  \E i, j \in Enrolls :
    /\ sent[i].status = 201
    /\ Follows(j, i)
    /\ sent[j].user_name = sent[i].user_name
    /\ Missing(sent[j].crypto_commitment)
    /\ sent[j].status = 400
    /\ RecordsOf(sent[j].user_name) # {}

(* C10: a VerifyCommitment whose username is missing or empty is answered
   BadRequest (400) without a read or a write of the store, whatever its
   commitment and whatever the store holds. *)
C10_VerifyBadRequest ==
  [][ ( /\ Responds
        /\ Answer.path = "/verifyCommitment"
        /\ Missing(Answer.user_name) )
      => /\ Answer.status = 400
         /\ Answer.sql = <<>>
         /\ store' = store ]_vars

\* with a record in the store, a verify without a username and with the
\* stored commitment: 400
C10_Witness ==
  \E j \in Verifies :
    /\ Missing(sent[j].user_name)
    /\ sent[j].status = 400
    /\ \E k \in 1..Len(store) :
         sent[j].crypto_commitment = Str(store[k].crypto_commitment)

\* the table as it was when response i was sent (rows are only appended)
StoreAt(i) == SubSeq(store, 1, sent[i].rows)

\* this step belongs to the handling of a VerifyCommitment
VerifyStep ==
  \/ \E p \in Procs : (pc[p] = "verify") # (pc'[p] = "verify")
  \/ Responds /\ Answer.path = "/verifyCommitment"

(* C11: VerifyCommitment is a pure read: no step of its handling changes the
   store, whatever the outcome, and two VerifyCommitment(u, c) answered with
   no insert between them are answered alike. *)
C11_VerifyPureRead ==
  /\ [][VerifyStep => store' = store]_vars
  /\ [](\A i, j \in Verifies :
          ( /\ sent[i].user_name = sent[j].user_name
            /\ sent[i].crypto_commitment = sent[j].crypto_commitment
            /\ sent[i].rows = sent[j].rows )
          => /\ sent[i].status = sent[j].status
             /\ sent[i].body = sent[j].body)

\* a verify answered 200 twice on the same one-row table, the row still
\* there after them
C11_Witness ==
  \E i, j \in Verifies :
    /\ i < j
    /\ sent[i].user_name = sent[j].user_name
    /\ sent[i].crypto_commitment = sent[j].crypto_commitment
    /\ sent[i].status = 200 /\ sent[j].status = 200
    /\ sent[i].rows = 1 /\ sent[j].rows = 1
    /\ Len(store) = 1
    /\ Str(store[1].crypto_commitment) = sent[j].crypto_commitment

\* the commitments that rows hold for username u
HeldFor(rows, u) ==
  {rows[k].crypto_commitment : k \in {n \in 1..Len(rows) : rows[n].user_name = u[2]}}

(* C12: the same VerifyCommitment request (same username, same commitment
   field, an absent one included) gets the same status and body from a store
   without a record for the username as from a store whose record for it
   holds another commitment. *)
C12_UniformUnauthorized ==
  \A i, j \in Verifies :
    ( /\ sent[i].user_name \in Names
      /\ sent[i].user_name = sent[j].user_name
      /\ sent[i].crypto_commitment = sent[j].crypto_commitment
      /\ "SELECT" \in {sent[i].sql[n] : n \in 1..Len(sent[i].sql)}
      /\ "SELECT" \in {sent[j].sql[n] : n \in 1..Len(sent[j].sql)}
      /\ HeldFor(StoreAt(i), sent[i].user_name) = {}
      /\ HeldFor(StoreAt(j), sent[j].user_name) # {}
      /\ \A h \in HeldFor(StoreAt(j), sent[j].user_name) :
           Str(h) # sent[j].crypto_commitment )
    => /\ sent[i].status = sent[j].status
       /\ sent[i].body = sent[j].body

\* the statements request i ran, and the POST requests of the log
Ran(i) == {sent[i].sql[n] : n \in 1..Len(sent[i].sql)}

Posts == Enrolls \cup Verifies

(* C13: a request one of whose store operations fails (the lookup or the
   insert) is answered InternalError (500), never Created or Authenticated,
   and leaves no record behind. *)
C13_StoreFaultInternalError ==
  \A i \in Posts :
    "sqlite3.Error" \in Ran(i)
    => /\ sent[i].status = 500
       /\ sent[i].body # <<>>

(* C14: every POST to /enroll or /verifyCommitment gets a response; one that
   fails gets a status code and an error message; one whose body is malformed
   is rejected before any statement runs on the store. *)
C14_StructuredErrors ==
  \A i \in Posts :
    /\ sent[i].status # 0
    /\ sent[i].status \notin {200, 201} =>
         /\ Len(sent[i].body) = 2
         /\ sent[i].body[1] = "error"
         /\ sent[i].body[2] # ""
    /\ sent[i].user_name = Unbound => sent[i].sql = <<>>

(* C15: save_crypto_commitment called for a username that has a record
   fails and leaves the store unchanged, so that of two inserts for one
   username, however interleaved, only one succeeds. *)
C15_InsertRejectsDuplicate ==
  [][ \A p \in Procs :
        ( /\ pc[p] = "save"
          /\ pc'[p] # "save"
          /\ RecordsOf(req[p].user_name) # {} )
        => /\ store' = store
           /\ pc'[p] # "created" ]_vars

\* the restarts in the log
Restarts == {i \in 1..Len(sent) : sent[i].path = "run"}

(* C16: a restart of the server leaves every record as it was, so a user
   enrolled before the restart is answered Authenticated for the enrolled
   commitment, and Conflict on enrolling again, after it. *)
C16_SurvivesRestart ==
  /\ [][(Responds /\ Answer.path = "run") => store' = store]_vars
  /\ [](\A i \in Enrolls, r \in Restarts, j \in Posts :
          ( /\ sent[i].status = 201
            /\ sent[i].crypto_commitment \in Secrets
            /\ i < r /\ r < j /\ Follows(j, r)
            /\ sent[j].user_name = sent[i].user_name )
          => IF j \in Enrolls
             THEN ~Missing(sent[j].crypto_commitment) => sent[j].status = 409
             ELSE sent[j].crypto_commitment = sent[i].crypto_commitment
                    => sent[j].status = 200)

\* Created, then a restart, then the verify of the enrolled commitment: 200
C16_Witness ==
  \E i \in Enrolls, r \in Restarts, j \in Verifies :
    /\ sent[i].status = 201
    /\ i < r /\ r < j /\ Follows(j, r)
    /\ sent[j].user_name = sent[i].user_name
    /\ sent[j].crypto_commitment = sent[i].crypto_commitment
    /\ sent[j].status = 200
    /\ Len(store) = 1

(* C17: every record of the store has a non-empty username and a non-empty
   commitment. *)
C17_NoEmptyFields ==
  \A i \in 1..Len(store) :
    /\ store[i].user_name # ""
    /\ store[i].crypto_commitment # ""

\* records are there, and Enrolls with an empty and with an absent field
\* were answered
C17_Witness ==
  /\ Len(store) >= 1
  /\ \E i, j \in Enrolls :
       /\ sent[i].crypto_commitment = Str("")
       /\ sent[i].user_name \in Names
       /\ sent[j].user_name \in {None, Str("")}
       /\ sent[j].crypto_commitment \in Secrets

(* C18: a record enters the store only in the insert step of an Enroll that
   passed the validation and the existence check, as the row (u, c) of that
   request and before its response; a Created response is sent only once the
   row is in the store; no other step (of a VerifyCommitment, of GET /, of an
   Enroll answered BadRequest or Conflict) changes the store. *)
C18_OnlyEnrollCreates ==
  [][ /\ store' # store =>
           \E p \in Procs :
             /\ pc[p] = "save" /\ pc'[p] = "created"
             /\ req[p].path = "/enroll"
             /\ req[p].user_name \in Names
             /\ ~Missing(req[p].crypto_commitment)
             /\ req[p].sql = <<"SELECT">>
             /\ store' = Append(store,
                  [id |-> Len(store) + 1,
                   user_name |-> req[p].user_name[2],
                   crypto_commitment |-> req[p].crypto_commitment[2]])
             /\ sent' = sent
      /\ (Responds /\ Answer.status = 201) =>
           /\ Answer.path = "/enroll"
           /\ Answer.sql = <<"SELECT", "INSERT">>
           /\ \E k \in 1..Len(store) :
                /\ store[k].user_name = Answer.user_name[2]
                /\ store[k].crypto_commitment = Answer.crypto_commitment[2] ]_vars

\* one row, its Enroll answered Created, and after it an Enroll answered
\* Conflict and a GET / that added nothing
C18_Witness ==
  /\ Len(store) = 1
  /\ \E i, j \in Enrolls, g \in 1..Len(sent) :
       /\ sent[i].status = 201
       /\ sent[i].user_name[2] = store[1].user_name
       /\ sent[j].status = 409 /\ Follows(j, i)
       /\ sent[g].path = "/" /\ i < g

(* C19: under fair scheduling of the handlers, every accepted Enroll or
   VerifyCommitment request reaches its final outcome: a handler that is
   serving a request eventually is done with it, whatever the other handlers
   do. *)
C19_EveryRequestCompletes ==
  \A p \in Procs : (pc[p] # "idle") ~> (pc[p] = "idle")

\* two Enrolls past their existence checks at once, neither inserted yet,
\* after an earlier request was answered
C19_Witness ==
  /\ Len(sent) > 0
  /\ \E p, q \in Procs : p # q /\ pc[p] = "save" /\ pc[q] = "save"

(* C20: in one server process the requests are handled one at a time: at most
   one request is being served, no other request is answered between the
   acceptance of a request and its response, and so nothing touches the store
   between the existence check and the insert of an Enroll: at the insert the
   username still has no record, and after it the record just inserted is the
   only one of that username. *)
C20_OneAtATime ==
  /\ Cardinality({p \in Procs : pc[p] # "idle"}) <= 1
  /\ \A i \in 1..Len(sent) : sent[i].start = i - 1
  /\ \A p \in Procs :
       /\ pc[p] # "idle" => req[p].start = Len(sent)
       /\ pc[p] = "save" => RecordsOf(req[p].user_name) = {}
       /\ pc[p] = "created" =>
            /\ RecordsOf(req[p].user_name) = {Len(store)}
            /\ store[Len(store)].crypto_commitment = req[p].crypto_commitment[2]

\* an Enroll between its existence check and its insert, in a process that
\* has already enrolled another username and answered a VerifyCommitment
C20_Witness ==
  /\ pc[1] = "save"
  /\ Len(store) > 0
  /\ \E i \in Enrolls, j \in Verifies : sent[i].status = 201 /\ i < j

====
